---------------------------- MODULE Spec2Model ----------------------------
(***************************************************************************)
(* A model of ipyhealth's parser (src/ipyhealth/parser.py):               *)
(*   - the field formatters of AppleHealthFormatter (format_standard,     *)
(*     format_type, format_device, format_string, ...),                   *)
(*   - the record formatter AppleHealthFormatter.format_values,           *)
(*   - the category-table builder AppleHealthParser.create_dataframe with *)
(*     its worker processes and its pickle files under <export>/tmp.      *)
(*                                                                         *)
(* Text is a sequence of one-character strings, so that the conversions   *)
(* (snake-casing, stripping, splitting, number parsing) are computed      *)
(* character by character as the code computes them.                      *)
(***************************************************************************)
EXTENDS Integers, Sequences, FiniteSets, TLC

VARIABLES
    st_call,     \* format_standard: [in |-> its input, out |-> <<>> or <<result>>]
    ty_call,     \* format_type: [in |-> its input, out |-> <<>> or <<result>>]
    dev_call,    \* format_device: [in |-> its input, out |-> <<>> or <<result>>]
    formatter,   \* an AppleHealthFormatter: [node_tag, attributes, values, again]
    parser,      \* an AppleHealthParser: [node_tag, nodes, kind] of the category built
    tmp,         \* the pickle files of <export_path>/tmp, by worker index
    frame,       \* the running call of create_dataframe (its locals and processes)
    run          \* AppleHealthParser.__init__: its position, its data and its results

vars == <<st_call, ty_call, dev_call, formatter, parser, tmp, frame, run>>

\* The variables of the category-table builder
build_vars == <<parser, tmp, frame, run>>

\* The variables of the formatter calls
call_vars == <<st_call, ty_call, dev_call, formatter>>

\* A function that is not called in a behaviour
NoCall == [in |-> <<>>, out |-> <<>>]

\* A call that has returned or raised
Called(c) == c.out # <<>>

\* No formatter object is made in a behaviour
NoFormatter == [node_tag |-> "", attributes |-> <<>>, values |-> <<>>, again |-> <<>>]

\* No parser is made in a behaviour
NoParser == [node_tag |-> "", nodes |-> <<>>, kind |-> ""]
NoFiles == <<>>
NoFrame == [pc |-> "none"]

\* No parser is being constructed in a behaviour
NoRun == [pc |-> "none"]

NoBuild ==
    /\ parser = NoParser
    /\ tmp = NoFiles
    /\ frame = NoFrame
    /\ run = NoRun

---------------------------------------------------------------------------
(* Bounds of the model *)

\* Bits of the significand of the model's binary floating point numbers
\* (CPython's float has 53; the rounding rule is the same at every width).
MantBits == 11

---------------------------------------------------------------------------
(* Results of a call: a returned value or a raised exception *)

Ok(v) == [tag |-> "ok", val |-> v]
Raise(e) == [tag |-> "raise", exc |-> e]
IsOk(r) == r.tag = "ok"

---------------------------------------------------------------------------
(* Characters and text *)

UpperChars == {"A","B","C","D","E","F","G","H","I","J","K","L","M",
               "N","O","P","Q","R","S","T","U","V","W","X","Y","Z"}
LowerChars == {"a","b","c","d","e","f","g","h","i","j","k","l","m",
               "n","o","p","q","r","s","t","u","v","w","x","y","z"}
DigitChars == {"0","1","2","3","4","5","6","7","8","9"}

\* str.lower() on one character
LowerOf(c) ==
    CASE c = "A" -> "a" [] c = "B" -> "b" [] c = "C" -> "c" [] c = "D" -> "d"
      [] c = "E" -> "e" [] c = "F" -> "f" [] c = "G" -> "g" [] c = "H" -> "h"
      [] c = "I" -> "i" [] c = "J" -> "j" [] c = "K" -> "k" [] c = "L" -> "l"
      [] c = "M" -> "m" [] c = "N" -> "n" [] c = "O" -> "o" [] c = "P" -> "p"
      [] c = "Q" -> "q" [] c = "R" -> "r" [] c = "S" -> "s" [] c = "T" -> "t"
      [] c = "U" -> "u" [] c = "V" -> "v" [] c = "W" -> "w" [] c = "X" -> "x"
      [] c = "Y" -> "y" [] c = "Z" -> "z" [] OTHER -> c

\* str.lower()
Lower(s) == [i \in 1..Len(s) |-> LowerOf(s[i])]

\* s[i:] and s[:i] with Python's 0-based indices
Drop(s, n) == SubSeq(s, n + 1, Len(s))
Take(s, n) == SubSeq(s, 1, n)

\* s.startswith(p)
StartsWith(s, p) == Len(s) >= Len(p) /\ Take(s, Len(p)) = p

\* the 0-based indices at which sep occurs in s
Occurrences(s, sep) ==
    {i \in 0..(Len(s) - Len(sep)) : SubSeq(s, i + 1, i + Len(sep)) = sep}

\* the least of a set of indices
First(found) == CHOOSE i \in found : \A j \in found : i <= j

\* s.split(sep) for a non-empty separator: the pieces between its occurrences
RECURSIVE Split(_, _)
SplitAt(s, sep, i) ==
    <<SubSeq(s, 1, i)>> \o Split(SubSeq(s, i + Len(sep) + 1, Len(s)), sep)

SplitFound(s, sep, found) ==
    IF found = {} THEN <<s>> ELSE SplitAt(s, sep, First(found))

Split(s, sep) == SplitFound(s, sep, Occurrences(s, sep))

\* sep.join(parts)
RECURSIVE Join(_, _)
Join(parts, sep) ==
    IF parts = <<>> THEN <<>>
    ELSE IF Len(parts) = 1 THEN parts[1]
    ELSE parts[1] \o sep \o Join(Tail(parts), sep)

\* s.replace(old, ""): every non-overlapping occurrence, left to right
RemoveAll(s, old) == Join(Split(s, old), <<>>)

\* s.strip(chars): the characters of the set are removed from both ends
RECURSIVE LStrip(_, _)
LStrip(s, chars) ==
    IF s # <<>> /\ s[1] \in chars THEN LStrip(Tail(s), chars) ELSE s

RECURSIVE RStrip(_, _)
RStrip(s, chars) ==
    IF s # <<>> /\ s[Len(s)] \in chars THEN RStrip(Take(s, Len(s) - 1), chars) ELSE s

Strip(s, chars) == RStrip(LStrip(s, chars), chars)

\* the characters that str.strip() removes
Whitespace == {" ", "\t", "\n", "\r", "\f"}

\* PUNC = string.punctuation.replace('.', ''), but for the backquote, which
\* cannot be written in a string here and which no text of the model holds
PUNC == {"!", "\"", "#", "$", "%", "&", "'", "(", ")", "*", "+", ",", "-", "/",
         ":", ";", "<", "=", ">", "?", "@", "[", "\\", "]", "^", "_", "{",
         "|", "}", "~"}

\* c in s, for a character c
Contains(s, c) == \E i \in 1..Len(s) : s[i] = c

\* {**a, **b}: the keys of both, b's value where both have the key
Merge(a, b) ==
    [k \in DOMAIN a \cup DOMAIN b |-> IF k \in DOMAIN b THEN b[k] ELSE a[k]]

\* {}
EmptyDict == [k \in {} |-> <<>>]

\* inflection.underscore(word):
\*   re.sub(r"([A-Z]+)([A-Z][a-z])", r"\1_\2", word)
\*   re.sub(r"([a-z\d])([A-Z])", r"\1_\2", word)
\*   word.replace("-", "_").lower()
\* An underscore goes before position i when s[i] is upper case and either
\* s[i-1] is upper case and s[i+1] lower case, or s[i-1] is lower case or a digit.
UnderscoreBreak(s, i) ==
    /\ i > 1
    /\ s[i] \in UpperChars
    /\ \/ s[i-1] \in UpperChars /\ i < Len(s) /\ s[i+1] \in LowerChars
       \/ s[i-1] \in LowerChars \cup DigitChars

RECURSIVE UnderscoreFrom(_, _)
UnderscoreFrom(s, i) ==
    IF i > Len(s) THEN <<>>
    ELSE (IF UnderscoreBreak(s, i) THEN <<"_">> ELSE <<>>)
         \o <<(IF s[i] = "-" THEN "_" ELSE LowerOf(s[i]))>>
         \o UnderscoreFrom(s, i + 1)

underscore(word) == UnderscoreFrom(word, 1)

---------------------------------------------------------------------------
(* Numbers: float(text) and float division, rounded to MantBits bits *)

RECURSIVE Pow2(_)
Pow2(n) == IF n = 0 THEN 1 ELSE 2 * Pow2(n - 1)

RECURSIVE Gcd(_, _)
Gcd(a, b) == IF b = 0 THEN a ELSE Gcd(b, a % b)

\* A non-negative rational in lowest terms
Rat(n, d) == LET g == Gcd(n, d) IN [num |-> n \div g, den |-> d \div g]

\* Round the rational a/b, scaled into [2^(MantBits-1), 2^MantBits), to the
\* nearest integer, ties to even, and scale back (IEEE 754 round-to-nearest-even).
RECURSIVE RoundScaled(_, _, _)
RoundScaled(a, b, e) ==
    IF a < Pow2(MantBits - 1) * b THEN RoundScaled(2 * a, b, e - 1)
    ELSE IF a >= Pow2(MantBits) * b THEN RoundScaled(a, 2 * b, e + 1)
    ELSE LET m == a \div b
             r2 == 2 * (a % b)
             up == r2 > b \/ (r2 = b /\ m % 2 = 1)
             mm == IF up THEN m + 1 ELSE m
         IN  IF e >= 0 THEN Rat(mm * Pow2(e), 1) ELSE Rat(mm, Pow2(-e))

RoundNearest(q) == IF q.num = 0 THEN Rat(0, 1) ELSE RoundScaled(q.num, q.den, 0)

\* x / k for a float x and a positive integer k
FloatDiv(x, k) == RoundNearest(Rat(x.num, x.den * k))

DigitVal(c) ==
    CASE c = "0" -> 0 [] c = "1" -> 1 [] c = "2" -> 2 [] c = "3" -> 3
      [] c = "4" -> 4 [] c = "5" -> 5 [] c = "6" -> 6 [] c = "7" -> 7
      [] c = "8" -> 8 [] c = "9" -> 9

RECURSIVE DigitsToNat(_)
DigitsToNat(s) ==
    IF s = <<>> THEN 0
    ELSE 10 * DigitsToNat(Take(s, Len(s) - 1)) + DigitVal(s[Len(s)])

RECURSIVE Pow10(_)
Pow10(n) == IF n = 0 THEN 1 ELSE 10 * Pow10(n - 1)

IsDecimalText(s) ==
    /\ \E i \in 1..Len(s) : s[i] \in DigitChars
    /\ \A i \in 1..Len(s) : s[i] \in DigitChars \cup {"."}
    /\ Cardinality({i \in 1..Len(s) : s[i] = "."}) <= 1

\* The exact value of a decimal text, digits with at most one point
DecimalValue(s) ==
    LET dots == {i \in 1..Len(s) : s[i] = "."}
        p == IF dots = {} THEN Len(s) + 1 ELSE CHOOSE i \in dots : TRUE
        ip == Take(s, p - 1)
        fp == Drop(s, IF p > Len(s) THEN Len(s) ELSE p)
    IN  Rat(DigitsToNat(ip) * Pow10(Len(fp)) + DigitsToNat(fp), Pow10(Len(fp)))

\* float(text): the nearest float, or ValueError
ParseFloat(s) ==
    IF IsDecimalText(s) THEN Ok(RoundNearest(DecimalValue(s)))
    ELSE Raise("ValueError")

---------------------------------------------------------------------------
(* Text constants of the source *)

t_total == <<"t","o","t","a","l">>
t_duration == <<"d","u","r","a","t","i","o","n">>
t_distance == <<"d","i","s","t","a","n","c","e">>
t_energy_burned == <<"e","n","e","r","g","y","_","b","u","r","n","e","d">>
t_min == <<"m","i","n">>
t_sec == <<"s","e","c">>
t_km == <<"k","m">>
t_kcal == <<"k","c","a","l">>
t_m == <<"m">>
t_cal == <<"c","a","l">>
t_k == <<"k">>
t_us == <<"_">>
t_us_min == <<"_","m","i","n">>
t_us_k == <<"_","k">>
t_activity_type == <<"a","c","t","i","v","i","t","y","_","t","y","p","e">>
t_activity == <<"a","c","t","i","v","i","t","y">>
t_group == <<"(",".","+",")">>
t_device_ == <<"d","e","v","i","c","e","_">>
t_colon == <<":">>
t_comma == <<",">>

---------------------------------------------------------------------------
(* AppleHealthFormatter.format_standard *)

\* A variant of StandardValue that forgets the unit conversion
StandardValueUnconverted(col_name, st_val, divisor) ==
    LET f == ParseFloat(st_val)
    IN  IF ~IsOk(f) THEN f ELSE Ok(<<col_name, f.val>>)

\* float(st_val), then the division when there is one (divisor 1: none)
Converted(col_name, f, divisor) ==
    IF ~IsOk(f) THEN f
    ELSE Ok(<<col_name, IF divisor = 1 THEN f.val ELSE FloatDiv(f.val, divisor)>>)

StandardValue(col_name, st_val, divisor) ==
    Converted(col_name, ParseFloat(st_val), divisor)

\* col_name of a distance or an energy
KiloName(st_key, unit_val) ==
    IF StartsWith(unit_val, t_k) THEN st_key \o t_us \o unit_val
    ELSE st_key \o t_us_k \o unit_val

\* A variant of format_standard without the final else branches: a unit
\* that starts with "k" passes through, any other unit is divided
StandardOfLenient(st_key, st_val, unit_val) ==
    IF st_key \in {t_duration} THEN
        IF unit_val = t_min THEN StandardValue(st_key \o t_us_min, st_val, 1)
        ELSE StandardValue(st_key \o t_us_min, st_val, 60)
    ELSE IF st_key \in {t_distance, t_energy_burned} THEN
        IF StartsWith(unit_val, t_k)
        THEN StandardValue(KiloName(st_key, unit_val), st_val, 1)
        ELSE StandardValue(KiloName(st_key, unit_val), st_val, 1000)
    ELSE Raise("NotImplementedError")

format_standard_lenient(inputs) ==
    StandardOfLenient(underscore(RemoveAll(inputs[1], t_total)), inputs[2], inputs[3])

\* format_standard after st_key, st_val and unit_val are bound
StandardOf(st_key, st_val, unit_val) ==
    IF st_key \in {t_duration} THEN
        IF unit_val = t_min THEN StandardValue(st_key \o t_us_min, st_val, 1)
        ELSE IF unit_val = t_sec THEN StandardValue(st_key \o t_us_min, st_val, 60)
        ELSE Raise("NotImplementedError")
    ELSE IF st_key \in {t_distance, t_energy_burned} THEN
        IF unit_val \in {t_km, t_kcal}
        THEN StandardValue(KiloName(st_key, unit_val), st_val, 1)
        ELSE IF unit_val \in {t_m, t_cal}
        THEN StandardValue(KiloName(st_key, unit_val), st_val, 1000)
        ELSE Raise("NotImplementedError")
    ELSE Raise("NotImplementedError")

format_standard(inputs) ==
    StandardOf(underscore(RemoveAll(inputs[1], t_total)), inputs[2], inputs[3])

---------------------------------------------------------------------------
(* Inputs of the format_standard calls *)

StandardKeys == {
    <<"d","u","r","a","t","i","o","n">>,
    <<"t","o","t","a","l","D","u","r","a","t","i","o","n">>,
    <<"t","o","t","a","l","D","i","s","t","a","n","c","e">>,
    <<"t","o","t","a","l","E","n","e","r","g","y","B","u","r","n","e","d">>,
    <<"a">>}

StandardValues == {
    <<"6","0","0">>,
    <<"1","0">>,
    <<"5",".","4">>,
    <<"0",".","0","9">>,
    <<"2","5","0","0">>,
    <<"a","b","c">>}

StandardUnits == {
    <<"m","i","n">>,
    <<"s","e","c">>,
    <<"k","m">>,
    <<"k","c","a","l">>,
    <<"m">>,
    <<"c","a","l">>,
    <<"c","m">>,
    <<"k","g">>,
    <<"r","a","n","d","o","m">>}

---------------------------------------------------------------------------
(* The calls of format_standard *)

InitStandard ==
    /\ \E k \in StandardKeys, v \in StandardValues, u \in StandardUnits :
            st_call = [in |-> <<k, v, u>>, out |-> <<>>]
    /\ ty_call = NoCall
    /\ dev_call = NoCall
    /\ formatter = NoFormatter
    /\ NoBuild

CallFormatStandard ==
    /\ st_call.in # <<>>
    /\ ~Called(st_call)
    /\ st_call' = [st_call EXCEPT !.out = <<format_standard(st_call.in)>>]
    /\ UNCHANGED <<ty_call, dev_call, formatter, build_vars>>

NextStandard == CallFormatStandard

SpecStandard == InitStandard /\ [][NextStandard]_vars

---------------------------------------------------------------------------
(* AppleHealthFormatter.format_type *)

\* The literal parts L1, L2 of a pattern ^L1(.+)L2(.+)$
PatternLiterals(pattern) ==
    Split(SubSeq(pattern, 2, Len(pattern) - 1), t_group)

\* "." matches any character except a line break
Dot(c) == c # "\n"

\* The match of ^L1(.+)L2(.+)$ on s with first group of i characters
GroupsAt(pattern, s, i) ==
    LET lit == PatternLiterals(pattern)
        a == Len(lit[1])
    IN  <<SubSeq(s, a + 1, a + i), Drop(s, a + i + Len(lit[2]))>>

MatchesAt(pattern, s, i) ==
    LET lit == PatternLiterals(pattern)
        a == Len(lit[1])
        b == Len(lit[2])
    IN  /\ Len(s) >= a + i + b + 1
        /\ Take(s, a) = lit[1]
        /\ SubSeq(s, a + i + 1, a + i + b) = lit[2]
        /\ \A j \in (a + 1)..(a + i) : Dot(s[j])
        /\ \A j \in (a + i + b + 1)..Len(s) : Dot(s[j])

\* re.findall(pattern, s) for an anchored pattern with two greedy groups:
\* no match, or the one match whose first group is the longest
re_findall(pattern, s) ==
    LET at == {i \in 1..Len(s) : MatchesAt(pattern, s, i)}
    IN  IF at = {} THEN <<>>
        ELSE <<GroupsAt(pattern, s, CHOOSE i \in at : \A j \in at : j <= i)>>

\* A variant of format_type that names the two groups the wrong way round
format_type_swapped(inputs) ==
    LET found == re_findall(inputs[1], inputs[2])
    IN  IF found = <<>> THEN Raise("IndexError")
        ELSE Ok([k \in {t_activity_type, t_activity} |->
                    IF k = t_activity_type THEN found[1][2] ELSE found[1][1]])

format_type(inputs) ==
    LET found == re_findall(inputs[1], inputs[2])
    IN  IF found = <<>> THEN Raise("IndexError")
        ELSE Ok([k \in {t_activity_type, t_activity} |->
                    IF k = t_activity_type THEN found[1][1] ELSE found[1][2]])

---------------------------------------------------------------------------
(* Inputs of the format_type calls: texts put together from a few pieces *)

t_HK == <<"H","K">>
t_ActivityType == <<"A","c","t","i","v","i","t","y","T","y","p","e">>
t_TypeIdentifier == <<"T","y","p","e","I","d","e","n","t","i","f","i","e","r">>
\* r"^HK(.+)ActivityType(.+)$"
WorkoutPattern == <<"^">> \o t_HK \o t_group \o t_ActivityType \o t_group \o <<"$">>
\* r"^HK(.+)TypeIdentifier(.+)$"
RecordPattern == <<"^">> \o t_HK \o t_group \o t_TypeIdentifier \o t_group \o <<"$">>

TypePieces == {
    <<"H","K">>,
    <<"A","c","t","i","v","i","t","y","T","y","p","e">>,
    <<"W","o","r","k","o","u","t">>,
    <<"Y","o","g","a">>,
    <<"T","y","p","e","I","d","e","n","t","i","f","i","e","r">>}

\* The most pieces in one text
MaxPieces == 4

RECURSIVE PieceTexts(_)
PieceTexts(n) ==
    IF n = 0 THEN {<<>>}
    ELSE LET shorter == PieceTexts(n - 1)
         IN  shorter \cup {t \o p : t \in shorter, p \in TypePieces}

TypeTexts == PieceTexts(MaxPieces)

---------------------------------------------------------------------------
(* The calls of format_type *)

InitType ==
    /\ \E pattern \in {WorkoutPattern, RecordPattern}, s \in TypeTexts :
            ty_call = [in |-> <<pattern, s>>, out |-> <<>>]
    /\ st_call = NoCall
    /\ dev_call = NoCall
    /\ formatter = NoFormatter
    /\ NoBuild

CallFormatType ==
    /\ ty_call.in # <<>>
    /\ ~Called(ty_call)
    /\ ty_call' = [ty_call EXCEPT !.out = <<format_type(ty_call.in)>>]
    /\ UNCHANGED <<st_call, dev_call, formatter, build_vars>>

NextType == CallFormatType

SpecType == InitType /\ [][NextType]_vars

---------------------------------------------------------------------------
(* AppleHealthFormatter.format_device *)

\* A variant of clean_device_info that keeps info[1] only
clean_device_info_second(device) ==
    LET info == Split(device, t_colon)
        key  == t_device_ \o Lower(Strip(Strip(info[1], PUNC), Whitespace))
        val  == Strip(Strip(info[2], PUNC), Whitespace)
    IN  [k \in {key} |-> val]

clean_device_info(device) ==
    LET info == Split(device, t_colon)
        key  == t_device_ \o Lower(Strip(Strip(info[1], PUNC), Whitespace))
        val  == Strip(Strip(Join(Tail(info), t_colon), PUNC), Whitespace)
    IN  [k \in {key} |-> val]

\* [d for d in parts if ':' in d]
RECURSIVE WithColon(_)
WithColon(parts) ==
    IF parts = <<>> THEN <<>>
    ELSE (IF Contains(parts[1], ":") THEN <<parts[1]>> ELSE <<>>)
         \o WithColon(Tail(parts))

\* A variant of the merge in which a later map overwrites an earlier one
RECURSIVE ChainMapLastWins(_)
ChainMapLastWins(maps) ==
    IF maps = <<>> THEN EmptyDict
    ELSE Merge(maps[1], ChainMapLastWins(Tail(maps)))

\* dict(ChainMap(*maps)): a key is looked up in the maps from first to last,
\* so the first map that holds a key gives its value
RECURSIVE ChainMap(_)
ChainMap(maps) ==
    IF maps = <<>> THEN EmptyDict
    ELSE Merge(ChainMap(Tail(maps)), maps[1])

format_device(device_string) ==
    LET devices == WithColon(Split(device_string, t_comma))
    IN  Ok(ChainMap([i \in 1..Len(devices) |-> clean_device_info(devices[i])]))

---------------------------------------------------------------------------
(* Inputs of the format_device calls: components joined by commas *)

DeviceComponents == {
    <<"<","<","H","K","D","e","v","i","c","e",":"," ","0","x",">">>,
    <<" ","n","a","m","e",":","A","p","p","l","e"," ","W","a","t","c","h">>,
    <<" ","m","a","n","u","f","a","c","t","u","r","e","r",":","A","p","p","l","e"," ","I","n","c",".">>,
    <<" ","h","a","r","d","w","a","r","e",":","W","a","t","c","h","5">>,
    <<"4">>,
    <<" ","s","o","f","t","w","a","r","e",":","6",".","1",".","3",">">>,
    <<"u","r","l",":","h","t","t","p",":","/","/","a">>,
    <<"N","a","m","e",":","b">>}

\* the device of a workout of the export: six components with a label
WatchDevice ==
    <<"<","<","H","K","D","e","v","i","c","e",":"," ","0","x",">",","," ","n","a","m","e",":","A","p","p","l","e"," ","W","a","t","c","h",","," ","m","a","n","u","f","a","c","t","u","r","e","r",":","A","p","p","l","e"," ","I","n","c",".",",">>
    \o <<" ","m","o","d","e","l",":","W","a","t","c","h",","," ","h","a","r","d","w","a","r","e",":","W","a","t","c","h","5",",","4",","," ","s","o","f","t","w","a","r","e",":","6",".","1",".","3",">">>

\* The most components in one drawn device text
MaxComponents == 3

RECURSIVE ComponentTexts(_)
ComponentTexts(n) ==
    IF n = 0 THEN {<<>>}
    ELSE LET shorter == ComponentTexts(n - 1)
         IN  shorter \cup DeviceComponents
                     \cup {t \o t_comma \o p : t \in shorter \ {<<>>}, p \in DeviceComponents}

DeviceTexts == ComponentTexts(MaxComponents) \cup {WatchDevice}

---------------------------------------------------------------------------
(* The calls of format_device *)

InitDevice ==
    /\ \E s \in DeviceTexts : dev_call = [in |-> <<s>>, out |-> <<>>]
    /\ st_call = NoCall
    /\ ty_call = NoCall
    /\ formatter = NoFormatter
    /\ NoBuild

CallFormatDevice ==
    /\ dev_call.in # <<>>
    /\ ~Called(dev_call)
    /\ dev_call' = [dev_call EXCEPT !.out = <<format_device(dev_call.in[1])>>]
    /\ UNCHANGED <<st_call, ty_call, formatter, build_vars>>

NextDevice == CallFormatDevice

SpecDevice == InitDevice /\ [][NextDevice]_vars

---------------------------------------------------------------------------
(* The values of a Canonical Row: text, float or timestamp *)

StrVal(s) == [t |-> "str", v |-> s]
FloatVal(q) == [t |-> "float", v |-> q]
DateVal(n) == [t |-> "date", v |-> n]

---------------------------------------------------------------------------
(* The formatters of one (name, value) pair *)

\* unicodedata.normalize("NFKD", c) for one character: a no-break space
\* becomes a space, a letter with an accent becomes the letter and the accent
\* (characters outside ASCII are written by their code point)
NFKDOf(c) ==
    CASE c = "U+00A0" -> <<" ">>
      [] c = "U+00E9" -> <<"e", "U+0301">>
      [] OTHER -> <<c>>

RECURSIVE normalize(_)
normalize(s) == IF s = <<>> THEN <<>> ELSE NFKDOf(s[1]) \o normalize(Tail(s))

\* dateutil.parser.parse on the form YYYY-MM-DD: the day as the number
\* YYYYMMDD, or ValueError
parse(s) ==
    IF /\ Len(s) = 10
       /\ s[5] = "-" /\ s[8] = "-"
       /\ \A i \in {1, 2, 3, 4, 6, 7, 9, 10} : s[i] \in DigitChars
       /\ DigitsToNat(SubSeq(s, 6, 7)) \in 1..12
       /\ DigitsToNat(SubSeq(s, 9, 10)) \in 1..31
    THEN Ok(DateVal(DigitsToNat(SubSeq(s, 1, 4)) * 10000
                    + DigitsToNat(SubSeq(s, 6, 7)) * 100
                    + DigitsToNat(SubSeq(s, 9, 10))))
    ELSE Raise("ValueError")

format_string(inputs) == Ok(<<underscore(inputs[1]), StrVal(normalize(inputs[2]))>>)

format_no_format(inputs) == Ok(<<underscore(inputs[1]), StrVal(inputs[2])>>)

format_numerics(inputs) ==
    LET f == ParseFloat(inputs[2])
    IN  IF IsOk(f) THEN Ok(<<underscore(inputs[1]), FloatVal(f.val)>>) ELSE f

format_date(inputs) ==
    LET t == parse(inputs[2])
    IN  IF IsOk(t) THEN Ok(<<underscore(inputs[1]), t.val>>) ELSE t

---------------------------------------------------------------------------
(* The Format Template NODES, read from templates/activity_format.json *)

a_workoutActivityType == <<"w","o","r","k","o","u","t","A","c","t","i","v","i","t","y","T","y","p","e">>
a_sourceName == <<"s","o","u","r","c","e","N","a","m","e">>
a_sourceVersion == <<"s","o","u","r","c","e","V","e","r","s","i","o","n">>
a_device == <<"d","e","v","i","c","e">>
a_creationDate == <<"c","r","e","a","t","i","o","n","D","a","t","e">>
a_startDate == <<"s","t","a","r","t","D","a","t","e">>
a_endDate == <<"e","n","d","D","a","t","e">>
a_duration == <<"d","u","r","a","t","i","o","n">>
a_durationUnit == <<"d","u","r","a","t","i","o","n","U","n","i","t">>
a_totalDistance == <<"t","o","t","a","l","D","i","s","t","a","n","c","e">>
a_totalDistanceUnit == <<"t","o","t","a","l","D","i","s","t","a","n","c","e","U","n","i","t">>
a_totalEnergyBurned == <<"t","o","t","a","l","E","n","e","r","g","y","B","u","r","n","e","d">>
a_totalEnergyBurnedUnit == <<"t","o","t","a","l","E","n","e","r","g","y","B","u","r","n","e","d","U","n","i","t">>
a_type == <<"t","y","p","e">>
a_unit == <<"u","n","i","t">>
a_value == <<"v","a","l","u","e">>
a_dateComponents == <<"d","a","t","e","C","o","m","p","o","n","e","n","t","s">>
a_activeEnergyBurned == <<"a","c","t","i","v","e","E","n","e","r","g","y","B","u","r","n","e","d">>
a_appleStandHoursGoal == <<"a","p","p","l","e","S","t","a","n","d","H","o","u","r","s","G","o","a","l">>

Categories == {"ActivitySummary", "Workout", "Record"}

NODES(node_tag) ==
    CASE node_tag = "Workout" ->
            [pattern |-> <<WorkoutPattern>>,
             formats |-> <<
                [ftype |-> "type",      names |-> <<a_workoutActivityType>>],
                [ftype |-> "string",    names |-> <<a_sourceName>>],
                [ftype |-> "no_format", names |-> <<a_sourceVersion>>],
                [ftype |-> "device",    names |-> <<a_device>>],
                [ftype |-> "date",      names |-> <<a_creationDate, a_startDate, a_endDate>>],
                [ftype |-> "standard",  names |-> <<
                    <<a_duration, a_durationUnit>>,
                    <<a_totalDistance, a_totalDistanceUnit>>,
                    <<a_totalEnergyBurned, a_totalEnergyBurnedUnit>> >>] >>]
      [] node_tag = "Record" ->
            [pattern |-> <<RecordPattern>>,
             formats |-> <<
                [ftype |-> "type",      names |-> <<a_type>>],
                [ftype |-> "string",    names |-> <<a_sourceName>>],
                [ftype |-> "no_format", names |-> <<a_sourceVersion, a_unit, a_value>>],
                [ftype |-> "device",    names |-> <<a_device>>],
                [ftype |-> "date",      names |-> <<a_creationDate, a_startDate, a_endDate>>] >>]
      [] node_tag = "ActivitySummary" ->
            [pattern |-> <<>>,
             formats |-> <<
                [ftype |-> "date",      names |-> <<a_dateComponents>>],
                [ftype |-> "numerics",  names |-> <<a_activeEnergyBurned, a_appleStandHoursGoal>>] >>]

---------------------------------------------------------------------------
(* AppleHealthFormatter.format_values *)

\* the values of the names that the record holds, in the order of the names
RECURSIVE Present(_, _)
Present(attributes, attr_names) ==
    IF attr_names = <<>> THEN <<>>
    ELSE (IF attr_names[1] \in DOMAIN attributes
          THEN <<attributes[attr_names[1]]>> ELSE <<>>)
         \o Present(attributes, Tail(attr_names))

\* zip(a, b): the pairs up to the end of the shorter sequence
Min(a, b) == IF a <= b THEN a ELSE b
Zip(a, b) == [i \in 1..Min(Len(a), Len(b)) |-> <<a[i], b[i]>>]

\* the first raise of a sequence of results, if there is one
FirstRaise(results) ==
    LET bad == {i \in 1..Len(results) : ~IsOk(results[i])}
    IN  IF bad = {} THEN <<>>
        ELSE <<results[CHOOSE i \in bad : \A j \in bad : i <= j]>>

\* dict(pairs): a later pair replaces an earlier one with the same name
RECURSIVE DictOfPairs(_)
DictOfPairs(results) ==
    IF results = <<>> THEN EmptyDict
    ELSE LET last == results[Len(results)].val
         IN  Merge(DictOfPairs(Take(results, Len(results) - 1)),
                   [k \in {last[1]} |-> last[2]])

\* the texts of a mapping as row values
TagText(dict) == [k \in DOMAIN dict |-> StrVal(dict[k])]

\* the float of a (name, float) result as a row value
TagFloat(r) == IF IsOk(r) THEN Ok(<<r.val[1], FloatVal(r.val[2])>>) ELSE r

\* The local name d: not yet bound, a dict, a map object that has not been
\* read, or a map object that has been read to its end
Unbound == [kind |-> "unbound", val |-> <<>>]
DictObject(dict) == [kind |-> "dict", val |-> <<dict>>]
MapObject(results) == [kind |-> "map", val |-> results]
ReadMap == [kind |-> "map", val |-> <<>>]

\* self.format_x on every pair
MapOver(ftype, pairs) ==
    [i \in 1..Len(pairs) |->
        CASE ftype = "string"    -> format_string(pairs[i])
          [] ftype = "no_format" -> format_no_format(pairs[i])
          [] ftype = "date"      -> format_date(pairs[i])
          [] ftype = "numerics"  -> format_numerics(pairs[i])]

\* map(self.format_x, zip(attr_names, attr_vals))
MapPairs(ftype, attr_names, attr_vals) ==
    MapObject(MapOver(ftype, Zip(attr_names, attr_vals)))

\* list(map(self.format_type, zip(patterns, attr_vals)))
TypeList(pairs) == [i \in 1..Len(pairs) |-> format_type(pairs[i])]

\* d = list(...)[0]
TypeFirst(made) ==
    IF FirstRaise(made) # <<>> THEN FirstRaise(made)[1]
    ELSE IF made = <<>> THEN Raise("IndexError")
    ELSE Ok(DictObject(TagText(made[1].val)))

\* the type branch: patterns = [NODES[self.node_tag]['pattern']] * len(attr_names)
BindType(self, attr_names, attr_vals) ==
    IF NODES(self.node_tag).pattern = <<>> THEN Raise("KeyError")
    ELSE TypeFirst(TypeList(Zip([i \in 1..Len(attr_names) |->
                                    NODES(self.node_tag).pattern[1]],
                                attr_vals)))

\* the standard branch: self.attributes[an] and self.attributes[aunit]
BindStandard(self, attr_names) ==
    IF \E i \in 1..Len(attr_names) :
          \/ attr_names[i][1] \notin DOMAIN self.attributes
          \/ attr_names[i][2] \notin DOMAIN self.attributes
    THEN Raise("KeyError")
    ELSE Ok(MapObject([i \in 1..Len(attr_names) |->
            TagFloat(format_standard(<<attr_names[i][1],
                                       self.attributes[attr_names[i][1]],
                                       self.attributes[attr_names[i][2]]>>))]))

\* the branches that use the collected attr_vals
BindValues(self, ftype, attr_names, attr_vals, d) ==
    CASE ftype = "type" -> BindType(self, attr_names, attr_vals)
      [] ftype \in {"string", "no_format", "date", "numerics"} ->
            Ok(MapPairs(ftype, attr_names, attr_vals))
      [] ftype = "device" ->
            IF attr_vals # <<>>
            THEN Ok(DictObject(TagText(format_device(attr_vals[1]).val)))
            ELSE Ok(d)
      [] OTHER -> Raise("NotImplementedError")

\* One pass of the loop body up to the binding of d: the new d, or a raise
BindGroup(self, group, d) ==
    IF group.ftype # "standard"
    THEN BindValues(self, group.ftype, group.names,
                    Present(self.attributes, group.names), d)
    ELSE BindStandard(self, group.names)

\* dict(d)
DictOf(d) ==
    CASE d.kind = "unbound" -> Raise("UnboundLocalError")
      [] d.kind = "dict" -> Ok(d.val[1])
      [] d.kind = "map" ->
            IF FirstRaise(d.val) # <<>> THEN FirstRaise(d.val)[1]
            ELSE Ok(DictOfPairs(d.val))

\* d after dict(d) has read it
AfterRead(d) == IF d.kind = "map" THEN ReadMap ELSE d

\* formatted_vals = {**formatted_vals, **dict(d)}, and the next group
RECURSIVE FormatGroups(_, _, _, _)
MergeGroup(self, groups, formatted_vals, d, made) ==
    IF ~IsOk(made) THEN made
    ELSE FormatGroups(self, Tail(groups), Merge(formatted_vals, made.val), AfterRead(d))

ReadGroup(self, groups, formatted_vals, bound) ==
    IF ~IsOk(bound) THEN bound
    ELSE MergeGroup(self, groups, formatted_vals, bound.val, DictOf(bound.val))

FormatGroups(self, groups, formatted_vals, d) ==
    IF groups = <<>> THEN Ok(formatted_vals)
    ELSE ReadGroup(self, groups, formatted_vals, BindGroup(self, groups[1], d))

format_values(self) ==
    FormatGroups(self, NODES(self.node_tag).formats, EmptyDict, Unbound)

---------------------------------------------------------------------------
(* Raw records: one node of the export per category *)

\* the mapping of a set of (name, text) pairs
Record(pairs) ==
    [k \in {q[1] : q \in pairs} |-> (CHOOSE q \in pairs : q[1] = k)[2]]

WorkoutNode ==
    Record({
        <<a_workoutActivityType, <<"H","K","W","o","r","k","o","u","t","A","c","t","i","v","i","t","y","T","y","p","e","Y","o","g","a">>>>,
        <<a_sourceName, <<"A","U+00A0","W","a","t","c","h">>>>,
        <<a_sourceVersion, <<"6",".","1",".","3">>>>,
        <<a_device, <<"<","<","H","K","D","e","v","i","c","e",":"," ","0","x",">",","," ","n","a","m","e",":","A","p","p","l","e"," ","W","a","t","c","h",","," ","h","a","r","d","w","a","r","e",":","W","a","t","c","h","5",",","4",">">>>>,
        <<a_creationDate, <<"2","0","2","0","-","0","4","-","0","8">>>>,
        <<a_startDate, <<"2","0","2","0","-","0","4","-","0","6">>>>,
        <<a_endDate, <<"2","0","2","0","-","0","4","-","0","7">>>>,
        <<a_duration, <<"6","0","0">>>>,
        <<a_durationUnit, <<"s","e","c">>>>,
        <<a_totalDistance, <<"2","5","0","0">>>>,
        <<a_totalDistanceUnit, <<"m">>>>,
        <<a_totalEnergyBurned, <<"1","0">>>>,
        <<a_totalEnergyBurnedUnit, <<"k","c","a","l">>>>})

RecordNode ==
    Record({
        <<a_type, <<"H","K","Q","u","a","n","t","i","t","y","T","y","p","e","I","d","e","n","t","i","f","i","e","r","S","t","e","p","C","o","u","n","t">>>>,
        <<a_sourceName, <<"A","U+00A0","W","a","t","c","h">>>>,
        <<a_sourceVersion, <<"6",".","1",".","3">>>>,
        <<a_unit, <<"c","o","u","n","t">>>>,
        <<a_value, <<"3","7">>>>,
        <<a_device, <<"<","<","H","K","D","e","v","i","c","e",":"," ","0","x",">",","," ","n","a","m","e",":","A","p","p","l","e"," ","W","a","t","c","h",">">>>>,
        <<a_creationDate, <<"2","0","2","0","-","0","4","-","0","8">>>>,
        <<a_startDate, <<"2","0","2","0","-","0","4","-","0","6">>>>,
        <<a_endDate, <<"2","0","2","0","-","0","4","-","0","7">>>>})

ActivitySummaryNode ==
    Record({
        <<a_dateComponents, <<"2","0","2","0","-","0","4","-","0","6">>>>,
        <<a_activeEnergyBurned, <<"4","0","8",".","3","0","2">>>>,
        <<a_appleStandHoursGoal, <<"1","2">>>>})

BaseNode(node_tag) ==
    CASE node_tag = "Workout" -> WorkoutNode
      [] node_tag = "Record" -> RecordNode
      [] node_tag = "ActivitySummary" -> ActivitySummaryNode

Restrict(f, S) == [k \in S |-> f[k]]

---------------------------------------------------------------------------
(* A formatter object: made by __init__, then format_values called again *)

InitValues ==
    /\ \E node_tag \in Categories :
         \E S \in SUBSET DOMAIN BaseNode(node_tag) :
            formatter = [node_tag |-> node_tag,
                         attributes |-> Restrict(BaseNode(node_tag), S),
                         values |-> <<>>,
                         again |-> <<>>]
    /\ st_call = NoCall
    /\ ty_call = NoCall
    /\ dev_call = NoCall
    /\ NoBuild

\* A variant of format_values that takes what it reads out of the record
\* (self.attributes.pop(aname)): the record afterwards
self_after_pop(self) ==
    [self EXCEPT !.attributes =
        Restrict(self.attributes,
                 {k \in DOMAIN self.attributes :
                    \A i \in 1..Len(NODES(self.node_tag).formats) :
                        \/ NODES(self.node_tag).formats[i].ftype = "standard"
                        \/ \A j \in 1..Len(NODES(self.node_tag).formats[i].names) :
                              NODES(self.node_tag).formats[i].names[j] # k})]

\* The object after a run of format_values: no attribute of self is assigned
self_after_format_values(self) == self

\* __init__: self.values = self.format_values()
NewFormatter ==
    /\ formatter.node_tag # ""
    /\ formatter.values = <<>>
    /\ formatter' = [self_after_format_values(formatter) EXCEPT
                        !.values = <<format_values(formatter)>>]
    /\ UNCHANGED <<st_call, ty_call, dev_call, build_vars>>

\* formatter.format_values() on the object that __init__ has made
FormatValuesAgain ==
    /\ formatter.values # <<>>
    /\ IsOk(formatter.values[1])
    /\ formatter' = [self_after_format_values(formatter) EXCEPT
                        !.again = <<format_values(formatter)>>]
    /\ UNCHANGED <<st_call, ty_call, dev_call, build_vars>>

NextValues == NewFormatter \/ FormatValuesAgain

SpecValues == InitValues /\ [][NextValues]_vars

---------------------------------------------------------------------------
(* AppleHealthParser.create_dataframe: the category-table builder *)

\* Largest number of raw records of the category
MaxNodes == 3

\* Largest number of worker processes (nprocs)
MaxProcs == 3

t_6_2 == <<"6", ".", "2">>
t_early == <<"2", "0", "2", "0", "-", "0", "4", "-", "0", "5">>

\* A Workout node and a Record node of few attributes
ShortWorkout ==
    Restrict(WorkoutNode,
             {a_workoutActivityType, a_sourceVersion, a_creationDate,
              a_duration, a_durationUnit, a_totalDistance, a_totalDistanceUnit,
              a_totalEnergyBurned, a_totalEnergyBurnedUnit})

ShortRecord == Restrict(RecordNode, {a_type, a_sourceVersion, a_creationDate, a_value})

\* Raw records of a category: two with the same date, one of an earlier
\* date, and one that its formatter raises on
SampleNodes(node_tag) ==
    CASE node_tag = "Workout" ->
            {ShortWorkout,
             [ShortWorkout EXCEPT ![a_sourceVersion] = t_6_2],
             [ShortWorkout EXCEPT ![a_creationDate] = t_early],
             Restrict(ShortWorkout, DOMAIN ShortWorkout \ {a_totalDistance})}
      [] node_tag = "Record" ->
            {ShortRecord,
             [ShortRecord EXCEPT ![a_sourceVersion] = t_6_2],
             [ShortRecord EXCEPT ![a_creationDate] = t_early],
             Restrict(ShortRecord, DOMAIN ShortRecord \ {a_type})}
      [] node_tag = "ActivitySummary" ->
            {ActivitySummaryNode,
             [ActivitySummaryNode EXCEPT ![a_appleStandHoursGoal] = <<"6">>],
             [ActivitySummaryNode EXCEPT ![a_dateComponents] = t_early],
             [ActivitySummaryNode EXCEPT ![a_activeEnergyBurned] = <<"a">>]}

\* The lists of at most n elements of S
RECURSIVE SeqsUpTo(_, _)
SeqsUpTo(S, n) ==
    IF n = 0 THEN {<<>>}
    ELSE LET shorter == SeqsUpTo(S, n - 1)
         IN  shorter \cup {Append(q, x) : q \in shorter, x \in S}

\* sort_values(by) with the default kind ('quicksort') promises no order of
\* rows whose keys are equal; the order it gives is a function of its input.
\* Two such functions: equal keys keep their order, or come out reversed.
SortKinds == {"ties_kept", "ties_reversed"}

\* python's nodes[a:b]
Slice(nodes, a, b) ==
    SubSeq(nodes, Min(a, Len(nodes)) + 1, Min(b, Len(nodes)))

\* int(math.ceil(len(nodes) / float(nprocs)))
ChunkSize(nodes, nprocs) == (Len(nodes) + nprocs - 1) \div nprocs

\* The chunk of the worker of index i (from 0)
NodeChunk(nodes, nprocs, i) ==
    Slice(nodes, ChunkSize(nodes, nprocs) * i, ChunkSize(nodes, nprocs) * (i + 1))

\* worker: cleaned_vals.append(formatter.values) for every node of the chunk;
\* the formatter's exception ends the loop
RECURSIVE AppendValues(_, _, _)
AppendNext(node_tag, node_chunks, cleaned, values) ==
    IF IsOk(values)
    THEN AppendValues(node_tag, Tail(node_chunks), Append(cleaned, values.val))
    ELSE values

AppendValues(node_tag, node_chunks, cleaned) ==
    IF node_chunks = <<>> THEN Ok(cleaned)
    ELSE AppendNext(node_tag, node_chunks, cleaned,
                    format_values([node_tag |-> node_tag,
                                   attributes |-> node_chunks[1]]))

cleaned_vals(node_tag, node_chunks) == AppendValues(node_tag, node_chunks, <<>>)

\* date_col = underscore(NODES[node_tag]['formats']['date'][0])
RECURSIVE DateGroup(_)
DateGroup(groups) ==
    IF groups[1].ftype = "date" THEN groups[1] ELSE DateGroup(Tail(groups))

date_col(node_tag) == underscore(DateGroup(NODES(node_tag).formats).names[1])

\* The place of a row among rows that are sorted by their key
RECURSIVE InsertRow(_, _, _, _)
InsertRow(sorted, row, by, kind) ==
    IF sorted = <<>> THEN <<row>>
    ELSE IF \/ sorted[1][by].v < row[by].v
            \/ (kind = "ties_kept" /\ sorted[1][by].v = row[by].v)
         THEN <<sorted[1]>> \o InsertRow(Tail(sorted), row, by, kind)
         ELSE <<row>> \o sorted

RECURSIVE SortRows(_, _, _)
SortRows(rows, by, kind) ==
    IF rows = <<>> THEN <<>>
    ELSE InsertRow(SortRows(SubSeq(rows, 1, Len(rows) - 1), by, kind),
                   rows[Len(rows)], by, kind)

\* df.sort_values(by=date_col).reset_index(drop=True): KeyError when the
\* table has no such column; rows without a value go last, in their order
sort_values(df, by, kind) ==
    IF \A n \in 1..Len(df) : by \notin DOMAIN df[n] THEN Raise("KeyError")
    ELSE Ok(SortRows(SelectSeq(df, LAMBDA row : by \in DOMAIN row), by, kind)
            \o SelectSeq(df, LAMBDA row : by \notin DOMAIN row))

NoFile == <<>>

IdleFrame ==
    [pc |-> "idle", nprocs |-> 0, i |-> 0, procs |-> <<>>, failed |-> {},
     read |-> <<>>, df |-> <<>>, ret |-> <<>>]

\* AppleHealthParser.__init__: the data of one category, and the tmp folder
Init ==
    /\ \E node_tag \in Categories :
         \E nodes \in SeqsUpTo(SampleNodes(node_tag), MaxNodes) :
            \E kind \in SortKinds :
               parser = [node_tag |-> node_tag, nodes |-> nodes, kind |-> kind]
    /\ tmp = [i \in 0..(MaxProcs - 1) |-> NoFile]
    /\ frame = IdleFrame
    /\ run = NoRun
    /\ st_call = NoCall
    /\ ty_call = NoCall
    /\ dev_call = NoCall
    /\ formatter = NoFormatter

\* self.create_dataframe(node_tag, nprocs) is called (again, after the call
\* before has returned or raised: the tmp folder is kept)
CreateDataframe ==
    /\ frame.pc \in {"idle", "returned", "raised"}
    /\ \E nprocs \in 1..MaxProcs :
          frame' = [IdleFrame EXCEPT !.pc = "spawn", !.nprocs = nprocs]
    /\ UNCHANGED <<parser, tmp, call_vars, run>>

\* for i in range(nprocs): ... procs.append(proc); proc.start()
StartProcess ==
    /\ frame.pc = "spawn"
    /\ frame' = [frame EXCEPT
                    !.procs = Append(@, "running"),
                    !.i = IF frame.i + 1 = frame.nprocs THEN 0 ELSE @ + 1,
                    !.pc = IF frame.i + 1 = frame.nprocs THEN "join" ELSE @]
    /\ UNCHANGED <<parser, tmp, call_vars, run>>

\* worker: a process formats its chunk and writes its pickle, or dies of
\* the formatter's exception without writing
Worker(w) ==
    /\ frame.pc \in {"spawn", "join"}
    /\ w + 1 \in 1..Len(frame.procs)
    /\ frame.procs[w + 1] = "running"
    /\ LET vals == cleaned_vals(parser.node_tag,
                                NodeChunk(parser.nodes, frame.nprocs, w))
       IN  IF IsOk(vals)
           THEN /\ tmp' = [tmp EXCEPT ![w] = <<vals.val>>]
                /\ frame' = [frame EXCEPT !.procs[w + 1] = "exited"]
           ELSE /\ tmp' = tmp
                /\ frame' = [frame EXCEPT !.procs[w + 1] = "exited",
                                          !.failed = @ \cup {w}]
    /\ UNCHANGED <<parser, call_vars, run>>

\* A variant of the join loop that does not wait for the process to exit
JoinNoWait ==
    /\ frame.pc = "join"
    /\ frame' = [frame EXCEPT
                    !.i = IF frame.i + 1 = frame.nprocs THEN 0 ELSE @ + 1,
                    !.pc = IF frame.i + 1 = frame.nprocs THEN "read" ELSE @]
    /\ UNCHANGED <<parser, tmp, call_vars, run>>

\* for proc in procs: proc.join()
JoinProcess ==
    /\ frame.pc = "join"
    /\ frame.procs[frame.i + 1] = "exited"
    /\ frame' = [frame EXCEPT
                    !.i = IF frame.i + 1 = frame.nprocs THEN 0 ELSE @ + 1,
                    !.pc = IF frame.i + 1 = frame.nprocs THEN "read" ELSE @]
    /\ UNCHANGED <<parser, tmp, call_vars, run>>

\* tmp = pd.read_pickle(name); df = pd.concat([df, tmp])
ReadPickle ==
    /\ frame.pc = "read"
    /\ IF tmp[frame.i] = NoFile
       THEN frame' = [frame EXCEPT !.pc = "raised",
                                   !.ret = <<Raise("FileNotFoundError")>>]
       ELSE frame' = [frame EXCEPT !.pc = "remove",
                                   !.read = Append(@, frame.i),
                                   !.df = @ \o tmp[frame.i][1]]
    /\ UNCHANGED <<parser, tmp, call_vars, run>>

\* os.remove(name)
Remove ==
    /\ frame.pc = "remove"
    /\ tmp' = [tmp EXCEPT ![frame.i] = NoFile]
    /\ frame' = [frame EXCEPT
                    !.i = IF frame.i + 1 = frame.nprocs THEN 0 ELSE @ + 1,
                    !.pc = IF frame.i + 1 = frame.nprocs THEN "sort" ELSE "read"]
    /\ UNCHANGED <<parser, call_vars, run>>

\* df = df.sort_values(by=date_col).reset_index(drop=True); return df
SortValues ==
    /\ frame.pc = "sort"
    /\ LET sorted == sort_values(frame.df, date_col(parser.node_tag), parser.kind)
       IN  frame' = [frame EXCEPT
                        !.pc = IF IsOk(sorted) THEN "returned" ELSE "raised",
                        !.ret = <<sorted>>]
    /\ UNCHANGED <<parser, tmp, call_vars, run>>

Next ==
    \/ CreateDataframe
    \/ StartProcess
    \/ \E w \in 0..(MaxProcs - 1) : Worker(w)
    \/ JoinProcess
    \/ ReadPickle
    \/ Remove
    \/ SortValues

Spec == Init /\ [][Next]_vars

---------------------------------------------------------------------------
(* AppleHealthParser.__init__: one run of the parser over an export *)

\* Largest number of raw records of a category in a run
MaxRunNodes == 1

t_value == <<"v","a","l","u","e">>
t_export_date == <<"e","x","p","o","r","t","_","d","a","t","e">>
t_HKCharacteristic == <<"H","K","C","h","a","r","a","c","t","e","r","i","s","t","i","c","T","y","p","e","I","d","e","n","t","i","f","i","e","r">>
t_DateOfBirth == <<"H","K","C","h","a","r","a","c","t","e","r","i","s","t","i","c","T","y","p","e","I","d","e","n","t","i","f","i","e","r","D","a","t","e","O","f","B","i","r","t","h">>

\* The Me node of the export
MeNode == Record({<<t_DateOfBirth, <<"1","9","8","9","-","0","4","-","2","4">>>>})

\* The ExportDate nodes of the filtered data: none, one with its value, one
\* that has no value attribute, or one whose value is not a date
ExportDateNodes ==
    {<<>>,
     <<Record({<<t_value, <<"2","0","2","0","-","0","4","-","1","7">>>>})>>,
     <<Record({<<a_unit, t_early>>})>>,
     <<Record({<<t_value, <<"a">>>>})>>}

\* None
NoneVal == [t |-> "none", v |-> 0]

\* get_export_date: parse(export_date["value"]); the handler is for
\* AttributeError only, which neither the subscript of an attribute mapping
\* nor parse of a text raises
get_export_date(export_date) ==
    IF t_value \notin DOMAIN export_date THEN Raise("KeyError")
    ELSE parse(export_date[t_value])

\* key.replace('HKCharacteristicTypeIdentifier', '')
CleanKey(key) == RemoveAll(key, t_HKCharacteristic)

\* val.replace(key, '').replace('HK', '')
CleanVal(key, val) == RemoveAll(RemoveAll(val, key), t_HK)

\* cleaned after the loop over the attributes of the Me node
Cleaned(attributes, export_date) ==
    IF ~IsOk(export_date) THEN export_date
    ELSE Ok(Merge([k \in {t_export_date} |-> export_date.val],
                  [k \in {CleanKey(a) : a \in DOMAIN attributes} |->
                      StrVal(CleanVal(k, attributes[CHOOSE a \in DOMAIN attributes :
                                                       CleanKey(a) = k]))]))

\* get_info: self.get_nodes('Me')[0], self.get_nodes('ExportDate')[0]
get_info(me, export) ==
    IF me = <<>> \/ export = <<>> THEN Raise("IndexError")
    ELSE Cleaned(me[1], get_export_date(export[1]))

\* report_stats up to its first log line: datetime.strftime(export_date, ...)
report_stats(info) ==
    IF info[t_export_date] = NoneVal THEN Raise("TypeError") ELSE Ok(<<>>)

\* The lists of raw records of a category in a run: a sound record and one
\* that its formatter raises on
RunSamples(node_tag) ==
    CASE node_tag = "Workout" ->
            {ShortWorkout, Restrict(ShortWorkout, DOMAIN ShortWorkout \ {a_totalDistance})}
      [] node_tag = "Record" ->
            {ShortRecord, Restrict(ShortRecord, DOMAIN ShortRecord \ {a_type})}
      [] node_tag = "ActivitySummary" ->
            {ActivitySummaryNode,
             [ActivitySummaryNode EXCEPT ![a_activeEnergyBurned] = <<"a">>]}

RunData ==
    {data \in [Categories -> UNION {SeqsUpTo(RunSamples(c), MaxRunNodes) : c \in Categories}] :
        \A c \in Categories : data[c] \in SeqsUpTo(RunSamples(c), MaxRunNodes)}

\* The tmp folder at the start of a run, as far as the names of the category
\* being built go: empty, or with ActivitySummary1.pkl left by an earlier run
EmptyTmp == [i \in 0..(MaxProcs - 1) |-> NoFile]

RunTmp ==
    {EmptyTmp,
     [EmptyTmp EXCEPT ![1] = <<cleaned_vals("ActivitySummary", <<ActivitySummaryNode>>).val>>]}

\* self.activities, self.workouts, self.records in the order of __init__
AfterCategory(node_tag) ==
    CASE node_tag = "ActivitySummary" -> "Workout"
      [] node_tag = "Workout" -> "Record"
      [] node_tag = "Record" -> "routes"

InitRun ==
    /\ \E data \in RunData, export \in ExportDateNodes,
          nprocs \in 1..MaxProcs, verbose \in BOOLEAN :
          run = [pc |-> "get_info", data |-> data, me |-> <<MeNode>>,
                 export |-> export, nprocs |-> nprocs, verbose |-> verbose,
                 info |-> <<>>, tables |-> [c \in Categories |-> <<>>],
                 orphans |-> {}, exc |-> <<>>]
    /\ \E kind \in SortKinds : parser = [node_tag |-> "", nodes |-> <<>>, kind |-> kind]
    /\ tmp \in RunTmp
    /\ frame = IdleFrame
    /\ st_call = NoCall
    /\ ty_call = NoCall
    /\ dev_call = NoCall
    /\ formatter = NoFormatter

\* the run after get_info has returned or raised
AfterInfo(info) ==
    IF IsOk(info)
    THEN [run EXCEPT !.info = <<info.val>>, !.pc = "ActivitySummary"]
    ELSE [run EXCEPT !.pc = "raised", !.exc = <<info.exc>>]

\* self.info = self.get_info()
GetInfo ==
    /\ run.pc = "get_info"
    /\ run' = AfterInfo(get_info(run.me, run.export))
    /\ UNCHANGED <<parser, tmp, frame, call_vars>>

\* self.create_dataframe(node_tag, nprocs) is called for the next category
CallCreateDataframe ==
    /\ run.pc \in Categories
    /\ frame.pc = "idle"
    /\ parser' = [parser EXCEPT !.node_tag = run.pc, !.nodes = run.data[run.pc]]
    /\ frame' = [IdleFrame EXCEPT !.pc = "spawn", !.nprocs = run.nprocs]
    /\ UNCHANGED <<tmp, run, call_vars>>

\* the processes of the call that have not exited when the call ends
StillRunning ==
    {<<parser.node_tag, w - 1>> : w \in {v \in 1..Len(frame.procs) : frame.procs[v] = "running"}}

\* self.activities = ..., self.workouts = ..., self.records = ...: the call
\* has returned its table; the files of the next category are other files
AssignTable ==
    /\ run.pc \in Categories
    /\ frame.pc = "returned"
    /\ run' = [run EXCEPT !.tables[run.pc] = frame.ret,
                          !.pc = AfterCategory(run.pc),
                          !.orphans = @ \cup StillRunning]
    /\ frame' = IdleFrame
    /\ tmp' = EmptyTmp
    /\ UNCHANGED <<parser, call_vars>>

\* the exception of create_dataframe leaves __init__
RaiseFromCreate ==
    /\ run.pc \in Categories
    /\ frame.pc = "raised"
    /\ run' = [run EXCEPT !.pc = "raised", !.exc = <<frame.ret[1].exc>>,
                          !.orphans = @ \cup StillRunning]
    /\ frame' = IdleFrame
    /\ UNCHANGED <<parser, tmp, call_vars>>

\* self.routes = self.create_routes_dataframe(), of an export without routes
CreateRoutesDataframe ==
    /\ run.pc = "routes"
    /\ run' = [run EXCEPT !.pc = IF run.verbose THEN "report_stats" ELSE "done"]
    /\ UNCHANGED <<parser, tmp, frame, call_vars>>

\* the run after report_stats has returned or raised
AfterReport(reported) ==
    IF IsOk(reported) THEN [run EXCEPT !.pc = "done"]
    ELSE [run EXCEPT !.pc = "raised", !.exc = <<reported.exc>>]

\* if verbose: self.report_stats()
ReportStats ==
    /\ run.pc = "report_stats"
    /\ run' = AfterReport(report_stats(run.info[1]))
    /\ UNCHANGED <<parser, tmp, frame, call_vars>>

NextRun ==
    \/ GetInfo
    \/ CallCreateDataframe
    \/ StartProcess
    \/ \E w \in 0..(MaxProcs - 1) : Worker(w)
    \/ JoinProcess
    \/ ReadPickle
    \/ Remove
    \/ SortValues
    \/ AssignTable
    \/ RaiseFromCreate
    \/ CreateRoutesDataframe
    \/ ReportStats

SpecRun == InitRun /\ [][NextRun]_vars

---------------------------------------------------------------------------
(* Claims about format_standard *)

\* The quantity type of a call: its name without "total", snake-cased
QuantityType(c) == underscore(RemoveAll(c.in[1], t_total))

Ret(c) == c.out[1]

UnsupportedInput(c) ==
    \/ QuantityType(c) \notin {t_duration, t_distance, t_energy_burned}
    \/ QuantityType(c) = t_duration /\ c.in[3] \notin {t_min, t_sec}
    \/ /\ QuantityType(c) \in {t_distance, t_energy_burned}
       /\ c.in[3] \notin {t_km, t_kcal, t_m, t_cal}

\* C1: a call of format_standard whose quantity type is not duration, distance
\* or energy_burned, or whose unit is not one its quantity type supports, ends
\* in NotImplementedError and returns no (name, value) pair.
C1_UnsupportedRaises ==
    Called(st_call) /\ UnsupportedInput(st_call)
        => Ret(st_call) = Raise("NotImplementedError")

\* a distance in "cm" and a quantity type "a" have both been refused
C1_Witness ==
    /\ Called(st_call)
    /\ UnsupportedInput(st_call)
    /\ QuantityType(st_call) = t_distance
    /\ st_call.in[3] = <<"c","m">>
    /\ Ret(st_call) = Raise("NotImplementedError")

IsDurationCall(c, unit) ==
    /\ QuantityType(c) = t_duration
    /\ c.in[3] = unit
    /\ IsDecimalText(c.in[2])

\* the value v in minutes that a call's text stands for, as a float
MinutesOf(c) ==
    IF c.in[3] = t_sec
    THEN RoundNearest(Rat(DecimalValue(c.in[2]).num, DecimalValue(c.in[2]).den * 60))
    ELSE RoundNearest(DecimalValue(c.in[2]))

\* the text of a call is a number that a float holds exactly
ExactText(c) == RoundNearest(DecimalValue(c.in[2])) = DecimalValue(c.in[2])

\* C5 as stated: for every duration value v, the call with 60*v seconds and the
\* call with v minutes both return the pair (duration_min, v).
C5_RoundTripAll ==
    Called(st_call) /\ (IsDurationCall(st_call, t_sec) \/ IsDurationCall(st_call, t_min))
        => Ret(st_call) = Ok(<<t_duration \o t_us_min, MinutesOf(st_call)>>)

\* C5 amended: the call with v minutes returns (duration_min, v), and the call
\* with 60*v seconds returns the same pair whenever 60*v is a number that a
\* float holds exactly (every integer number of seconds within the precision).
C5_RoundTripExact ==
    ( /\ Called(st_call)
      /\ \/ IsDurationCall(st_call, t_min)
         \/ IsDurationCall(st_call, t_sec) /\ ExactText(st_call) )
        => Ret(st_call) = Ok(<<t_duration \o t_us_min, MinutesOf(st_call)>>)

\* 600 sec has been standardized to duration_min = 10
C5_Witness ==
    /\ Called(st_call)
    /\ IsDurationCall(st_call, t_sec)
    /\ st_call.in[2] = <<"6","0","0">>
    /\ ExactText(st_call)
    /\ Ret(st_call) = Ok(<<t_duration \o t_us_min, Rat(10, 1)>>)

\* the unit that a quantity type is collapsed to
CollapsedUnit(st_key) ==
    CASE st_key = t_duration -> t_min
      [] st_key = t_distance -> t_km
      [] st_key = t_energy_burned -> t_kcal

\* the divisor that takes a value in a unit to the collapsed unit
CollapseDivisor(unit_val) ==
    IF unit_val = t_sec THEN 60 ELSE IF unit_val \in {t_m, t_cal} THEN 1000 ELSE 1

\* C14: whenever format_standard returns a pair, its name is the quantity type
\* followed by the collapsed unit of that type (duration_min, distance_km,
\* energy_burned_kcal) and its value is the input value divided by what takes
\* the input unit to the collapsed one; no other name is returned.
C14_CollapsedUnitName ==
    Called(st_call) /\ IsOk(Ret(st_call))
        => /\ QuantityType(st_call) \in {t_duration, t_distance, t_energy_burned}
           /\ Ret(st_call) =
                 Converted(QuantityType(st_call) \o t_us \o CollapsedUnit(QuantityType(st_call)),
                           ParseFloat(st_call.in[2]),
                           CollapseDivisor(st_call.in[3]))

---------------------------------------------------------------------------
(* Claims about format_type *)

\* s = "HK" + X + "ActivityType" + Y with the "ActivityType" at position k
\* and X, Y not empty
HasTypeForm(s, k) ==
    /\ k > Len(t_HK) + 1
    /\ k + Len(t_ActivityType) <= Len(s)
    /\ Take(s, Len(t_HK)) = t_HK
    /\ SubSeq(s, k, k + Len(t_ActivityType) - 1) = t_ActivityType

\* C8: under the pattern ^HK(.+)ActivityType(.+)$, a text "HK" + X +
\* "ActivityType" + Y with X and Y not empty gives a mapping with exactly the
\* keys activity_type and activity whose values A, B rebuild the text as
\* "HK" + A + "ActivityType" + B; any other text gives an error and no mapping.
C8_TypeDecomposition ==
    LET s == ty_call.in[2]
        ret == Ret(ty_call)
    IN  Called(ty_call) /\ ty_call.in[1] = WorkoutPattern =>
            IF \E k \in 1..Len(s) : HasTypeForm(s, k)
            THEN /\ IsOk(ret)
                 /\ DOMAIN ret.val = {t_activity_type, t_activity}
                 /\ ret.val[t_activity_type] # <<>>
                 /\ ret.val[t_activity] # <<>>
                 /\ t_HK \o ret.val[t_activity_type] \o t_ActivityType
                        \o ret.val[t_activity] = s
            ELSE ret = Raise("IndexError")

\* "HKWorkoutActivityTypeYoga" has been split into Workout and Yoga
C8_Witness ==
    /\ Called(ty_call)
    /\ ty_call.in = <<WorkoutPattern,
                         t_HK \o <<"W","o","r","k","o","u","t">> \o t_ActivityType
                              \o <<"Y","o","g","a">> >>
    /\ IsOk(Ret(ty_call))
    /\ Ret(ty_call).val[t_activity_type] = <<"W","o","r","k","o","u","t">>
    /\ Ret(ty_call).val[t_activity] = <<"Y","o","g","a">>

---------------------------------------------------------------------------
(* Claims about format_device *)

\* The position of the first colon of a component that has one
FirstColon(c) == CHOOSE p \in 1..Len(c) : c[p] = ":" /\ \A q \in 1..(p - 1) : c[q] # ":"

\* stripped of surrounding punctuation and whitespace
Stripped(x) == Strip(Strip(x, PUNC), Whitespace)

LabelKey(c) == t_device_ \o Lower(Stripped(Take(c, FirstColon(c) - 1)))
RestValue(c) == Stripped(Drop(c, FirstColon(c)))

\* C7: the mapping of format_device has a key exactly for the comma-separated
\* components that hold a colon; the key of such a component is "device_" and
\* its lower-cased, stripped label (the text before its first colon), and the
\* value under it is the stripped remainder after the first colon, further
\* colons kept (when two components share a key, the value of one of them);
\* components with pairwise different labels give as many keys as components.
C7_DeviceDecomposition ==
    LET parts   == Split(dev_call.in[1], t_comma)
        labeled == {i \in 1..Len(parts) : Contains(parts[i], ":")}
        ret     == Ret(dev_call)
    IN  Called(dev_call) =>
            /\ IsOk(ret)
            /\ DOMAIN ret.val = {LabelKey(parts[i]) : i \in labeled}
            /\ \A i \in labeled :
                  ret.val[LabelKey(parts[i])] \in
                      {RestValue(parts[j]) :
                          j \in {h \in labeled : LabelKey(parts[h]) = LabelKey(parts[i])}}
            /\ (\A i, j \in labeled : i # j => LabelKey(parts[i]) # LabelKey(parts[j]))
                  => Cardinality(DOMAIN ret.val) = Cardinality(labeled)

\* the device of the export's workout has given its six device_ keys, and a
\* value with further colons has been kept whole
C7_Witness ==
    /\ Called(dev_call)
    /\ \/ /\ dev_call.in[1] = WatchDevice
          /\ Cardinality(DOMAIN Ret(dev_call).val) = 6
          /\ Ret(dev_call).val[t_device_ \o <<"h","k","d","e","v","i","c","e">>] = <<"0","x">>
       \/ /\ dev_call.in[1] = <<"u","r","l",":","h","t","t","p",":","/","/","a">>
          /\ Ret(dev_call).val[t_device_ \o <<"u","r","l">>]
                = <<"h","t","t","p",":","/","/","a">>

\* the components of a call's device text that hold a colon, by position
Labeled(c) ==
    {i \in 1..Len(Split(c.in[1], t_comma)) : Contains(Split(c.in[1], t_comma)[i], ":")}

ComponentAt(c, i) == Split(c.in[1], t_comma)[i]

\* the components of a call that give the same key as component i
SameKey(c, i) ==
    {j \in Labeled(c) : LabelKey(ComponentAt(c, j)) = LabelKey(ComponentAt(c, i))}

Earliest(S) == CHOOSE i \in S : \A j \in S : i <= j
Latest(S) == CHOOSE i \in S : \A j \in S : i >= j

\* two components of the call give the same key with different values
KeyCollision(c) ==
    \E i \in Labeled(c) : \E j \in SameKey(c, i) :
        RestValue(ComponentAt(c, j)) # RestValue(ComponentAt(c, i))

\* C15 as stated: when components of a device text give the same key, the
\* mapping of format_device holds the value of the latest of them; a component
\* whose key no other component gives keeps its own value.
C15_LastWins ==
    Called(dev_call) =>
        \A i \in Labeled(dev_call) :
            Ret(dev_call).val[LabelKey(ComponentAt(dev_call, i))]
                = RestValue(ComponentAt(dev_call, Latest(SameKey(dev_call, i))))

\* C15 amended: when components of a device text give the same key, the
\* mapping of format_device holds the value of the earliest of them; a
\* component whose key no other component gives keeps its own value.
C15_FirstWins ==
    Called(dev_call) =>
        \A i \in Labeled(dev_call) :
            Ret(dev_call).val[LabelKey(ComponentAt(dev_call, i))]
                = RestValue(ComponentAt(dev_call, Earliest(SameKey(dev_call, i))))

\* " name:Apple Watch" followed by "Name:b" has given device_name the value
\* of the first of the two, next to a component with a key of its own
C15_Witness ==
    /\ Called(dev_call)
    /\ KeyCollision(dev_call)
    /\ Cardinality(DOMAIN Ret(dev_call).val) >= 2
    /\ Ret(dev_call).val[t_device_ \o <<"n","a","m","e">>] = <<"A","p","p","l","e"," ","W","a","t","c","h">>
    /\ Earliest({i \in Labeled(dev_call) :
                    LabelKey(ComponentAt(dev_call, i)) = t_device_ \o <<"n","a","m","e">>})
          < Latest({i \in Labeled(dev_call) :
                    RestValue(ComponentAt(dev_call, i)) = <<"b">>})

---------------------------------------------------------------------------
(* Claims about format_values *)

PairKinds == {"string", "no_format", "date", "numerics"}

\* the formatter of a rule kind on one (name, value) pair
FormattedPair(ftype, pair) ==
    CASE ftype = "string"    -> format_string(pair)
      [] ftype = "no_format" -> format_no_format(pair)
      [] ftype = "date"      -> format_date(pair)
      [] ftype = "numerics"  -> format_numerics(pair)

Formats(self) == NODES(self.node_tag).formats

\* C4: in the row of format_values, for every rule group of kind string,
\* no_format, date or numerics and every attribute of the group that the
\* record holds, the snake-cased name of the attribute maps to the formatted
\* value of that same attribute, whichever attributes of the group are present.
C4_OwnValue ==
    formatter.values # <<>> /\ IsOk(formatter.values[1]) =>
        \A g \in 1..Len(Formats(formatter)) :
            Formats(formatter)[g].ftype \in PairKinds =>
                \A i \in 1..Len(Formats(formatter)[g].names) :
                    LET aname == Formats(formatter)[g].names[i]
                        row == formatter.values[1].val
                    IN  aname \in DOMAIN formatter.attributes =>
                            /\ underscore(aname) \in DOMAIN row
                            /\ row[underscore(aname)] =
                                  FormattedPair(Formats(formatter)[g].ftype,
                                      <<aname, formatter.attributes[aname]>>).val[2]

RECURSIVE PresentKeys(_, _)
PresentKeys(self, groups) ==
    IF groups = <<>> THEN {}
    ELSE LET g == groups[1]
             here == {i \in 1..Len(g.names) :
                        IF g.ftype = "standard"
                        THEN g.names[i][1] \in DOMAIN self.attributes
                        ELSE g.names[i] \in DOMAIN self.attributes}
             keys ==
                CASE g.ftype \in PairKinds -> {underscore(g.names[i]) : i \in here}
                  [] g.ftype = "type" ->
                        IF here = {} THEN {} ELSE {t_activity_type, t_activity}
                  [] g.ftype = "device" ->
                        UNION {DOMAIN format_device(self.attributes[g.names[i]]).val : i \in here}
                  [] g.ftype = "standard" ->
                        {underscore(RemoveAll(g.names[i][1], t_total)) : i \in here}
         IN  keys \cup PresentKeys(self, Tail(groups))

\* the key of a standard quantity without its unit suffix
StandardStem(k) ==
    IF \E q \in {t_duration, t_distance, t_energy_burned} : StartsWith(k, q \o t_us)
    THEN CHOOSE q \in {t_duration, t_distance, t_energy_burned} : StartsWith(k, q \o t_us)
    ELSE k

\* C10: whatever attributes a rule group declares and the record lacks (the
\* records here are sound in every attribute they hold), format_values
\* returns a row, and the row has keys only for attributes that are present.
C10_AbsentTolerated ==
    formatter.values # <<>> =>
        /\ IsOk(formatter.values[1])
        /\ \A k \in DOMAIN formatter.values[1].val :
              StandardStem(k) \in PresentKeys(formatter, Formats(formatter))

---------------------------------------------------------------------------
(* Claims about create_dataframe *)

Returned == frame.pc = "returned"
Table == frame.ret[1].val
DateOf(row) == row[date_col(parser.node_tag)].v
HasDate(row) == date_col(parser.node_tag) \in DOMAIN row

\* the rows of the raw records that their formatter returns a row for
InputRows ==
    [n \in 1..Len(parser.nodes) |->
        format_values([node_tag |-> parser.node_tag, attributes |-> parser.nodes[n]])]

NonDecreasing(table) ==
    \A m, n \in 1..Len(table) :
        (m < n /\ HasDate(table[m]) /\ HasDate(table[n])) =>
            DateOf(table[m]) <= DateOf(table[n])

TiesInInputOrder(table) ==
    \A m, n \in 1..Len(table) :
        (m < n /\ HasDate(table[m]) /\ HasDate(table[n])
               /\ DateOf(table[m]) = DateOf(table[n])) =>
            \E p, q \in 1..Len(parser.nodes) :
                /\ p < q
                /\ InputRows[p] = Ok(table[m])
                /\ InputRows[q] = Ok(table[n])

\* C2: the table that create_dataframe returns has a non-decreasing date
\* column, and rows of equal date are in the order of their raw records.
C2_SortedStable ==
    Returned => NonDecreasing(Table) /\ TiesInInputOrder(Table)

\* create_dataframe with one worker, as a function of the records: the one
\* worker writes the whole table or nothing, and its file is read
create_dataframe_1 ==
    LET vals == cleaned_vals(parser.node_tag, parser.nodes)
    IN  IF IsOk(vals)
        THEN sort_values(vals.val, date_col(parser.node_tag), parser.kind)
        ELSE Raise("FileNotFoundError")

\* C3: the table that create_dataframe returns with N workers is the table
\* that it returns with one worker over the same records, row for row.
C3_SameAsOneWorker ==
    Returned => frame.ret[1] = create_dataframe_1

\* The table of a build in which no worker has failed is the one-worker
\* table, whatever the order in which the workers finish.
SameAsOneWorkerWhenNoneFailed ==
    (Returned /\ frame.failed = {}) => frame.ret[1] = create_dataframe_1

\* The date column of every returned table is non-decreasing.
DateColumnNonDecreasing == Returned => NonDecreasing(Table)

\* C9: a build in which a worker has met a formatting error returns no table.
C9_ErrorAborts ==
    Returned => frame.failed = {}

\* the places (from 1) of the records that nodes[a:b] holds
SlicePlaces(nodes, a, b) == (Min(a, Len(nodes)) + 1)..Min(b, Len(nodes))

ChunkPlaces(nodes, nprocs, i) ==
    SlicePlaces(nodes, ChunkSize(nodes, nprocs) * i, ChunkSize(nodes, nprocs) * (i + 1))

RECURSIVE ChunksUpTo(_, _, _)
ChunksUpTo(nodes, nprocs, i) ==
    IF i = 0 THEN <<>>
    ELSE ChunksUpTo(nodes, nprocs, i - 1) \o NodeChunk(nodes, nprocs, i - 1)

\* The chunks of the workers are runs of consecutive records, no record is in
\* two of them, and one after the other they are the list of records.
ChunksPartition(nodes, nprocs) ==
    /\ \A i \in 0..(nprocs - 1) :
          NodeChunk(nodes, nprocs, i) =
             [k \in 1..Cardinality(ChunkPlaces(nodes, nprocs, i)) |->
                 nodes[ChunkSize(nodes, nprocs) * i + k]]
    /\ \A i, j \in 0..(nprocs - 1) :
          i # j => ChunkPlaces(nodes, nprocs, i) \cap ChunkPlaces(nodes, nprocs, j) = {}
    /\ UNION {ChunkPlaces(nodes, nprocs, i) : i \in 0..(nprocs - 1)} = 1..Len(nodes)
    /\ ChunksUpTo(nodes, nprocs, nprocs) = nodes

\* The chunks of every build in progress partition the records.
ChunksPartitionAlways ==
    frame.pc # "idle" => ChunksPartition(parser.nodes, frame.nprocs)

\* the table has one row for every raw record, and no other row
OneRowPerRecord(table) ==
    /\ Len(table) = Len(parser.nodes)
    /\ \A p \in 1..Len(parser.nodes) :
          /\ IsOk(InputRows[p])
          /\ Cardinality({m \in 1..Len(table) : Ok(table[m]) = InputRows[p]})
                = Cardinality({q \in 1..Len(parser.nodes) : InputRows[q] = InputRows[p]})

\* C11: the chunks handed to the workers are contiguous, pairwise disjoint
\* and together the record list in worker index order, also when there are
\* more workers than records; and a table that create_dataframe returns has
\* exactly one row for every raw record.
C11_ChunksAndRows ==
    /\ frame.pc # "idle" => ChunksPartition(parser.nodes, frame.nprocs)
    /\ Returned => OneRowPerRecord(Table)

---------------------------------------------------------------------------
(* Claims about the handoff files of create_dataframe *)

AllExited ==
    /\ Len(frame.procs) = frame.nprocs
    /\ \A w \in 1..Len(frame.procs) : frame.procs[w] = "exited"

\* the files that this call has read are no longer there
ReadFilesGone == \A k \in 1..Len(frame.read) : tmp[frame.read[k]] = NoFile

\* a step in which the parent reads a file
ReadStep == frame.pc = "read" /\ Len(frame'.read) = Len(frame.read) + 1

\* C12: the parent reads a pickle only after every worker of the call has
\* exited; the step after a read deletes the file that was read, before any
\* other file is read; and when the call returns a table, the file of every
\* worker index has been read once, in index order, and none of them remains.
C12_ReadAfterJoinThenDelete ==
    /\ [](frame.pc \in {"read", "remove", "sort", "returned"} => AllExited)
    /\ [](frame.pc \in {"read", "sort", "returned"} => ReadFilesGone)
    /\ [](Returned =>
            /\ frame.read = [k \in 1..frame.nprocs |-> k - 1]
            /\ \A i \in 0..(frame.nprocs - 1) : tmp[i] = NoFile)
    /\ [][/\ ReadStep => AllExited /\ ReadFilesGone
          /\ frame.pc = "remove" =>
                /\ frame'.read = frame.read
                /\ tmp'[frame.i] = NoFile
                /\ frame.read[Len(frame.read)] = frame.i]_vars

\* a call with several workers has returned a table of rows
C12_Witness ==
    /\ Returned
    /\ frame.nprocs >= 2
    /\ Len(frame.read) = frame.nprocs
    /\ Len(Table) >= 2


---------------------------------------------------------------------------
(* Claims about one run of the parser *)

\* os.path.join(self.export_path, 'tmp', f'{node_tag}{i}.pkl'): within one
\* export folder the name is the tag followed by the index
export_name(node_tag, i) == <<node_tag, i>>

\* the worker processes that are running: those of the call in progress and
\* those that an earlier call of the run left behind
RunningWorkers == run.orphans \cup StillRunning

\* a step that starts a worker process
StartStep == Len(frame'.procs) = Len(frame.procs) + 1

\* C13: at every moment of a run, the running workers all belong to the
\* category that __init__ is building, no call of the run has left a running
\* worker behind, and no two running workers have the same output file; a
\* worker is started only when no worker of an earlier category is running.
C13_OneCategoryAtATime ==
    /\ [](run.orphans = {})
    /\ [](\A a \in RunningWorkers : a[1] = run.pc /\ a[1] = parser.node_tag)
    /\ [](\A a, b \in RunningWorkers :
            export_name(a[1], a[2]) = export_name(b[1], b[2]) => a = b)
    /\ [][StartStep =>
            /\ run.orphans = {}
            /\ \A a \in RunningWorkers : a[1] = run.pc
            /\ \A c \in Categories :
                  AfterCategory(c) = run.pc => run.tables[c] # <<>>]_vars

\* the Workout build has two workers running after the ActivitySummary
\* table was built
C13_Witness ==
    /\ run.pc = "Workout"
    /\ run.tables["ActivitySummary"] # <<>>
    /\ Cardinality(RunningWorkers) >= 2


\* the export-date metadata of the run is missing: no ExportDate node, or a
\* node without a value that is a date
MissingExportDate ==
    \/ run.export = <<>>
    \/ t_value \notin DOMAIN run.export[1]
    \/ ~IsOk(parse(run.export[1][t_value]))

\* C16: when the export-date metadata is missing, get_info does not raise:
\* once it has run, the info of the parser is there and holds a null
\* export_date, and the run has gone on to the tables.
C16_MissingDateRecovered ==
    MissingExportDate /\ run.pc # "get_info"
        => /\ run.info # <<>>
           /\ run.info[1][t_export_date] = NoneVal
           /\ run.exc \notin {<<"IndexError">>, <<"KeyError">>, <<"ValueError">>}

============================================================================
